---- MODULE Spec2Model ----
(***************************************************************************)
(* State-machine model of github.com/jfcote87/salesforce:                  *)
(*   - the collection engine (composite.go: CreateRecords, UpdateRecords,  *)
(*     UpsertRecords, DeleteRecords, CompositeCall),                       *)
(*   - the paginated query reader (calls.go: Query, QueryAll, query;       *)
(*     salesforce.go: RecordSlice),                                        *)
(*   - OpResponses.Errors (composite.go) and the With... builders and      *)
(*     MaxBatchSize of Service (calls.go).                                 *)
(* Transport (Service.Call) and the BatchLogFunc are external: a call is   *)
(* issued in one step and returns (with a response or an error) in a later *)
(* step; the logger is a synchronous callback whose result is chosen       *)
(* nondeterministically.                                                   *)
(***************************************************************************)
EXTENDS Integers, Sequences, FiniteSets, TLC

(* ---------------------------- bounds ----------------------------------- *)
\* longest list of records / ids passed to a collection call
MaxRecs == 3

\* values passed to WithBatchSize (negative, unset, small, above the maximum)
BatchSizeArgs == {-1, 0, 1, 2, 201}

\* record kinds: generated structs (value receivers) and RecordMap
Entities ==
    { [kind |-> "struct", key |-> "a", attr |-> FALSE],
      [kind |-> "struct", key |-> "b", attr |-> FALSE],
      [kind |-> "map",    key |-> "c", attr |-> FALSE] }

\* ids passed to DeleteRecords
IDs == {"a", "b"}

RECURSIVE SeqsUpTo(_, _)
SeqsUpTo(S, n) ==
    IF n = 0 THEN { <<>> }
    ELSE LET shorter == SeqsUpTo(S, n - 1)
         IN  shorter \cup { Append(s, x) : s \in { t \in shorter : Len(t) = n - 1 }, x \in S }

(* --------------------------- state ------------------------------------- *)
VARIABLES
    sv,         \* the Service the caller holds: batchSize, maxrows, logger, isqry
    pc,         \* position of the running call
    op,         \* the public operation that was invoked
    allOrNone,  \* the allOrNone argument
    recs,       \* the caller's []SObject (CreateRecords/UpdateRecords/UpsertRecords)
    recs0,      \* the caller's []SObject as it was on entry
    ids,        \* the caller's []string (DeleteRecords)
    delIDs,     \* local delIDs of DeleteRecords: ids[i:numRecs]
    path,       \* path argument of CompositeCall
    method,     \* method argument of CompositeCall
    opResp,     \* local opResp: the running aggregate
    batchSz,    \* local batchSz
    i,          \* loop index i
    cmdRecs,    \* SObjects of the batch in flight (cmdRecs / delrecids)
    res,        \* local res: the response decoded by the last Transport call
    ret,        \* what the call returned: [isNil, results, err]
    calls,      \* Transport requests issued so far, in order
    replies,    \* what Transport returned for each request, in order
    logs,       \* logger invocations so far, in order
    events,     \* trace of Transport and logger events
    inflight,   \* number of Transport calls issued and not yet returned
    qpc,        \* position of the running Query / QueryAll
    qarg,       \* the path and qry arguments query was called with
    results,    \* the kind of value passed as the results parameter
    dest,       \* the caller's slice behind results (RecordSlice.resultsVal)
    dest0,      \* the caller's slice as it was on entry
    qres,       \* local res: the QueryResponse every page is decoded into
    fmtQry,     \* local fmtQry: the path of the next Transport call
    qret,       \* the error Query returned
    qcalls,     \* Transport requests issued by Query so far, in order
    pages,      \* page envelopes served so far, in order
    derived,    \* the Service the last With... builder returned
    built,      \* the last With... builder call: its name and argument
    epc,        \* whether OpResponses.Errors has been applied
    oprs,       \* receiver of Errors: the outcomes
    oprs0,      \* the outcomes as they were before Errors was applied
    startIndex, \* argument startIndex of Errors
    sobjects,   \* argument sobjects of Errors
    errReponses, \* what Errors returned
    ppc,        \* position of ReadSObjectDescriptions (the producer)
    nObjs,      \* number of objects in job.ObjMap, numbered in the order of the range
    nextObj,    \* the object the producer's range loop is at
    closed,     \* whether sendChannel is closed
    wpc,        \* position of every worker goroutine
    wobj,       \* local o of every worker: the object it received
    wlocal,     \* the slice job.StructMap[p] a worker read for its append
    el,         \* local el: the ErrorList, objects whose AssignSObjects failed
    jobM,       \* holder of the mutex job.m (0: free)
    wgN,        \* counter of job.wg
    pret,       \* what ReadSObjectDescriptions returned
    StructMap,  \* job.StructMap[p]: the objects a Struct was appended for
    handed,     \* every <<object, worker>> receive from sendChannel, in order
    matchedObjs, \* objects a package matched and Describe succeeded for
    failedObjs, \* objects whose Describe failed
    sobjCatalog, \* sobjCatalog.sobjects: the type registered under every name
    catM,       \* holder of the mutex sobjCatalog.m ("": free)
    kpc,        \* position of every goroutine that uses the catalog
    kargs,      \* its arguments: the names of sobjs, or the name in attributes
    kidx,       \* index of the range loop of RegisterSObjectTypes
    kraced,     \* whether its access to the map overlapped a conflicting one
    kgot        \* what getNewValue returned to it

cvars == <<sv, pc, op, allOrNone, recs, recs0, ids, delIDs, path, method, opResp, batchSz, i,
           cmdRecs, res, ret, calls, replies, logs, events, inflight>>

qvars == <<qpc, qarg, results, dest, dest0, qres, fmtQry, qret, qcalls, pages>>

bvars == <<derived, built>>

evars == <<epc, oprs, oprs0, startIndex, sobjects, errReponses>>

gvars == <<ppc, nObjs, nextObj, closed, wpc, wobj, wlocal, el, jobM, wgN, pret, StructMap,
           handed, matchedObjs, failedObjs>>

kvars == <<sobjCatalog, catM, kpc, kargs, kidx, kraced, kgot>>

pvars == <<gvars, kvars>>

xvars == <<bvars, evars, pvars>>

vars == <<cvars, qvars, xvars>>

(* ----------------------- Service configuration ------------------------- *)
New ==
    [baseURL |-> "https://host/services/data/version/", cf |-> "nil", ts |-> "ts",
     isqry |-> FALSE, batchSize |-> 0, maxrows |-> 0, contentType |-> "", accept |-> "",
     logger |-> FALSE]

WithBatchSize(s, batchSzArg) ==
    [s EXCEPT !.batchSize = IF batchSzArg < 0 THEN 0 ELSE batchSzArg]

WithLogger(s, blf) == [s EXCEPT !.logger = blf]

defaultContentType == "application/json; charset=UTF-8"
defaultAccept == "application/json"

\* the Content-Type and Accept headers generateRequest sets
contentTypeHeader(s) == IF s.contentType # "" THEN s.contentType ELSE defaultContentType

acceptHeader(s) == IF s.accept # "" THEN s.accept ELSE defaultAccept

\* a plausible slip: the lower limit is not applied
MaxBatchSize_NoMin(s) ==
    LET defaultMax == IF ~s.isqry THEN 200 ELSE 2000
    IN  IF s.batchSize = 0 \/ s.batchSize > defaultMax THEN defaultMax
        ELSE s.batchSize

MaxBatchSize(s) ==
    LET defaultMax == IF ~s.isqry THEN 200 ELSE 2000
        defaultMin == IF ~s.isqry THEN 1 ELSE 200
    IN  IF s.batchSize = 0 \/ s.batchSize > defaultMax THEN defaultMax
        ELSE IF s.batchSize < defaultMin THEN defaultMin
        ELSE s.batchSize

(* ----------------------------- SObjects -------------------------------- *)
\* SObject.WithAttr(""): the value handed to the transport
WithAttr(e) ==
    IF e.kind = "delid" THEN e ELSE [e EXCEPT !.attr = TRUE]

\* what WithAttr leaves behind in the caller's list: a struct has a value
\* receiver (the caller's item is untouched), a RecordMap is a reference
AfterWithAttr(e) ==
    IF e.kind = "map" THEN [e EXCEPT !.attr = TRUE] ELSE e

SObjectName(e) ==
    CASE e.kind = "struct" -> "Contact"
      [] e.kind = "delid"  -> "DeleteID"
      [] OTHER             -> IF e.attr THEN "Map" ELSE ""

DeleteID(s) == [kind |-> "delid", key |-> s, attr |-> FALSE]

Min(a, b) == IF a < b THEN a ELSE b

\* s[from+1 .. to] (Go: s[from:to])
Slice(s, from, to) == SubSeq(s, from + 1, to)

(* ----------------------------- results --------------------------------- *)
ErrZeroRecords == "ErrZeroRecords"
TransportErr == "TransportErr"
LoggerErr == "LoggerErr"
NoErr == "nil"

NotReturned == [isNil |-> TRUE, results |-> <<>>, err |-> "pending"]
Return(agg, err) == [isNil |-> FALSE, results |-> agg, err |-> err]
ReturnNil(err) == [isNil |-> TRUE, results |-> <<>>, err |-> err]

\* the response of the service to request number k carrying n records: one
\* OpResponse per record, in order, whose id is assigned by the service
\* (request serial and position), with the success flags in succ
Response(k, n, succ) ==
    [j \in 1..n |-> [ID |-> <<k, j>>, Success |-> succ[j]]]

\* paths of Query: the query text (first call) or a nextRecordsUrl
NoURL == [kind |-> "none", text |-> <<>>, page |-> 0]

(* ------------------------------- Init ---------------------------------- *)
InitEngine ==
    /\ sv = New
    /\ pc = "idle"
    /\ op = "none"
    /\ allOrNone = FALSE
    /\ recs = <<>>
    /\ recs0 = <<>>
    /\ ids = <<>>
    /\ delIDs = <<>>
    /\ path = <<>>
    /\ method = ""
    /\ opResp = <<>>
    /\ batchSz = 0
    /\ i = 0
    /\ cmdRecs = <<>>
    /\ res = <<>>
    /\ ret = NotReturned
    /\ calls = <<>>
    /\ replies = <<>>
    /\ logs = <<>>
    /\ events = <<>>
    /\ inflight = 0
    /\ qpc = "idle"
    /\ qarg = [path |-> "", qry |-> <<>>]
    /\ results = "none"
    /\ dest = <<>>
    /\ dest0 = <<>>
    /\ qres = [Done |-> FALSE, NextRecordsURL |-> NoURL]
    /\ fmtQry = NoURL
    /\ qret = "pending"
    /\ qcalls = <<>>
    /\ pages = <<>>

\* no builder has been called
NoBuild ==
    [builder |-> "none", n |-> 0, flag |-> FALSE, text |-> <<>>, at |-> <<"idle", "idle">>]

InitBuild ==
    /\ derived = New
    /\ built = NoBuild

\* Errors has not been called
InitNoErrors ==
    /\ epc = "idle"
    /\ oprs = <<>>
    /\ oprs0 = <<>>
    /\ startIndex = 0
    /\ sobjects = <<>>
    /\ errReponses = <<>>

\* most worker goroutines of a pool
MaxWorkers == 2

\* number of worker goroutines ReadSObjectDescriptions starts: a package
\* variable, 8 unless changed; the pool is explored with MaxWorkers
numberOfGoRoutines == MaxWorkers

Workers == 1..numberOfGoRoutines

\* ReadSObjectDescriptions has not been called
InitNoPool ==
    /\ ppc = "idle"
    /\ nObjs = 0
    /\ nextObj = 0
    /\ closed = FALSE
    /\ wpc = [w \in Workers |-> "none"]
    /\ wobj = [w \in Workers |-> 0]
    /\ wlocal = [w \in Workers |-> <<>>]
    /\ el = <<>>
    /\ jobM = 0
    /\ wgN = 0
    /\ pret = "none"
    /\ StructMap = <<>>
    /\ handed = <<>>
    /\ matchedObjs = {}
    /\ failedObjs = {}

\* goroutines that call RegisterSObjectTypes, and that unmarshal an Any
Registrars == {"r1", "r2"}

Unmarshalers == {"u1"}

Goroutines == Registrars \cup Unmarshalers

\* names of SObject types: o.SObjectName(), and attributes.type of a record
SObjNames == {"Contact", "Account"}

\* the catalog is empty and nobody uses it
InitNoCatalog ==
    /\ sobjCatalog = [nm \in SObjNames |-> ""]
    /\ catM = ""
    /\ kpc = [g \in Goroutines |-> "idle"]
    /\ kargs = [g \in Goroutines |-> <<>>]
    /\ kidx = [g \in Goroutines |-> 0]
    /\ kraced = [g \in Goroutines |-> FALSE]
    /\ kgot = [g \in Goroutines |-> ""]

InitIdle == InitNoPool /\ InitNoCatalog

Init == InitEngine /\ InitBuild /\ InitNoErrors /\ InitIdle

callLocals == <<op, allOrNone, recs, recs0, ids, delIDs, path, method, opResp, batchSz, i, cmdRecs,
                res, ret>>
history == <<calls, replies, logs, events, inflight>>

(* ----------------- configuring the Service before a call --------------- *)
CfgBatchSize(b) ==
    /\ pc = "idle"
    /\ qpc = "idle"
    /\ sv' = WithBatchSize(sv, b)
    /\ UNCHANGED <<pc, callLocals, history, qvars, xvars>>

CfgLogger(blf) ==
    /\ pc = "idle"
    /\ qpc = "idle"
    /\ sv' = WithLogger(sv, blf)
    /\ UNCHANGED <<pc, callLocals, history, qvars, xvars>>

(* ------------------------- CompositeCall ------------------------------- *)
\* if len(recs) == 0
ZeroRecords_Never(list) == FALSE
ZeroRecords(list) == Len(list) = 0

\* numRecs := i + batchSz; if numRecs > len(recs) { numRecs = len(recs) }
NumRecs(idx, bsz, n) == Min(idx + bsz, n)

\* i += batchSz
NextIndex_One(idx, bsz) == idx + 1
NextIndex(idx, bsz) == idx + bsz

\* return opResp, err (sv.Call failed)
TransportAbort_Nil(agg) == ReturnNil(TransportErr)
TransportAbort(agg) == Return(agg, TransportErr)

\* opResp = append(opResp, res...)
Aggregate_Overwrite(agg, decoded) == decoded
Aggregate(agg, decoded) == agg \o decoded

\* if sv.logger != nil
HasLogger_Never(s) == FALSE
HasLogger(s) == s.logger

\* the arguments of sv.logger(ctx, i, cmdRecs, res)
LogArgs_Processed(idx, sobjs, decoded) ==
    [offset |-> idx + Len(sobjs), sobjects |-> sobjs, responses |-> decoded]
LogArgs(idx, sobjs, decoded) ==
    [offset |-> idx, sobjects |-> sobjs, responses |-> decoded]

\* if err := sv.logger(...); err != nil
LoggerHalts_Never(failed) == FALSE
LoggerHalts(failed) == failed

\* entry of CompositeCall: the zero-record guard and the locals
CompositeEntry(nm, aon, p, m, rs) ==
    /\ pc = "idle"
    /\ qpc = "idle"
    /\ op' = nm
    /\ allOrNone' = aon
    /\ recs' = rs
    /\ recs0' = rs
    /\ path' = p
    /\ method' = m
    /\ IF ZeroRecords(rs)
       THEN /\ ret' = ReturnNil(ErrZeroRecords)
            /\ pc' = "done"
            /\ UNCHANGED <<batchSz>>
       ELSE /\ batchSz' = MaxBatchSize(sv)
            /\ pc' = "cc_loop"
            /\ UNCHANGED <<ret>>
    /\ opResp' = <<>>
    /\ i' = 0
    /\ UNCHANGED <<qvars, xvars>>
    /\ UNCHANGED <<sv, ids, delIDs, cmdRecs, res, history>>

CreateRecords(aon, rs) ==
    CompositeEntry("CreateRecords", aon, <<"composite/sobjects">>, "POST", rs)

UpdateRecords(aon, rs) ==
    CompositeEntry("UpdateRecords", aon, <<"composite/sobjects">>, "PATCH", rs)

\* UpsertRecords has its own zero-record guard in front of recs[0]
UpsertRecords(aon, externalIDField, rs) ==
    IF Len(rs) = 0
    THEN /\ pc = "idle"
         /\ qpc = "idle"
         /\ op' = "UpsertRecords"
         /\ allOrNone' = aon
         /\ recs' = rs
         /\ recs0' = rs
         /\ ret' = ReturnNil(ErrZeroRecords)
         /\ pc' = "done"
         /\ UNCHANGED <<qvars, xvars>>
         /\ UNCHANGED <<sv, ids, delIDs, path, method, opResp, batchSz, i, cmdRecs, res,
                     history>>
    ELSE CompositeEntry("UpsertRecords", aon,
             <<"composite/sobjects", SObjectName(rs[1]), externalIDField>>, "PATCH", rs)

\* body := BatchBody{AllOrNone: allOrNone, ...}: the flag a request carries
Flag(aon) == {aon}

\* loop head of CompositeCall: build the batch and issue the Transport call,
\* or leave the loop and return
CompositeLoop ==
    /\ pc = "cc_loop"
    /\ IF i < Len(recs)
       THEN LET numRecs == NumRecs(i, batchSz, Len(recs))
                batch == Slice(recs, i, numRecs)
                tagged == [j \in 1..Len(batch) |-> WithAttr(batch[j])]
            IN  /\ cmdRecs' = tagged
                /\ recs' = [j \in 1..Len(recs) |->
                              IF j > i /\ j <= numRecs THEN AfterWithAttr(recs[j])
                              ELSE recs[j]]
                /\ calls' = Append(calls, [path |-> path, method |-> method,
                                           allOrNone |-> Flag(allOrNone), records |-> tagged,
                                           size |-> Len(tagged),
                                           contentType |-> contentTypeHeader(sv),
                                           accept |-> acceptHeader(sv)])
                /\ events' = Append(events, [ev |-> "call", batch |-> Len(calls) + 1])
                /\ inflight' = inflight + 1
                /\ pc' = "cc_call"
                /\ UNCHANGED <<ret>>
       ELSE /\ ret' = Return(opResp, NoErr)
            /\ pc' = "done"
            /\ UNCHANGED <<cmdRecs, recs, calls, events, inflight>>
    /\ UNCHANGED <<qvars, xvars>>
    /\ UNCHANGED <<sv, recs0, op, allOrNone, ids, delIDs, path, method, opResp, batchSz, i,
                   res, replies, logs>>

\* a plausible slip: a failed batch is sent again
CompositeCallFails_Retry ==
    /\ pc = "cc_call"
    /\ inflight' = inflight - 1
    /\ replies' = Append(replies, [ok |-> FALSE, res |-> <<>>])
    /\ events' = Append(events, [ev |-> "callerr", batch |-> Len(calls)])
    /\ pc' = "cc_loop"
    /\ UNCHANGED <<qvars, xvars>>
    /\ UNCHANGED <<sv, op, allOrNone, recs, recs0, ids, delIDs, path, method, opResp, batchSz, i,
                   cmdRecs, res, ret, calls, logs>>

\* sv.Call returned an error
CompositeCallFails ==
    /\ pc = "cc_call"
    /\ inflight' = inflight - 1
    /\ replies' = Append(replies, [ok |-> FALSE, res |-> <<>>])
    /\ events' = Append(events, [ev |-> "callerr", batch |-> Len(calls)])
    /\ ret' = TransportAbort(opResp)
    /\ pc' = "done"
    /\ UNCHANGED <<qvars, xvars>>
    /\ UNCHANGED <<sv, op, allOrNone, recs, recs0, ids, delIDs, path, method, opResp, batchSz, i,
                   cmdRecs, res, calls, logs>>

\* a plausible slip: a response holding a failed record aborts the call
CompositeCallReturns_FailFast(succ) ==
    /\ pc = "cc_call"
    /\ inflight' = inflight - 1
    /\ LET decoded == Response(Len(calls), Len(cmdRecs), succ)
       IN  /\ replies' = Append(replies, [ok |-> TRUE, res |-> decoded])
           /\ res' = decoded
           /\ opResp' = Aggregate(opResp, decoded)
           /\ IF \E j \in 1..Len(decoded) : ~decoded[j].Success
              THEN /\ pc' = "done"
                   /\ ret' = Return(Aggregate(opResp, decoded), "RecordErr")
                   /\ UNCHANGED i
              ELSE /\ UNCHANGED ret
                   /\ IF HasLogger(sv)
                      THEN pc' = "cc_log" /\ UNCHANGED i
                      ELSE pc' = "cc_loop" /\ i' = NextIndex(i, batchSz)
    /\ events' = Append(events, [ev |-> "callok", batch |-> Len(calls)])
    /\ UNCHANGED <<qvars, xvars>>
    /\ UNCHANGED <<sv, op, allOrNone, recs, recs0, ids, delIDs, path, method, batchSz, cmdRecs,
                   calls, logs>>

\* sv.Call returned res; append it and, without a logger, advance the loop
CompositeCallReturns(succ) ==
    /\ pc = "cc_call"
    /\ inflight' = inflight - 1
    /\ LET decoded == Response(Len(calls), Len(cmdRecs), succ)
       IN  /\ replies' = Append(replies, [ok |-> TRUE, res |-> decoded])
           /\ res' = decoded
           /\ opResp' = Aggregate(opResp, decoded)
    /\ events' = Append(events, [ev |-> "callok", batch |-> Len(calls)])
    /\ IF HasLogger(sv)
       THEN /\ pc' = "cc_log"
            /\ UNCHANGED i
       ELSE /\ pc' = "cc_loop"
            /\ i' = NextIndex(i, batchSz)
    /\ UNCHANGED <<qvars, xvars>>
    /\ UNCHANGED <<sv, op, allOrNone, recs, recs0, ids, delIDs, path, method, batchSz, cmdRecs,
                   ret, calls, logs>>

\* a plausible slip: the logger is handed the running aggregate
CompositeLog_Aggregate(failed) ==
    /\ pc = "cc_log"
    /\ logs' = Append(logs, LogArgs(i, cmdRecs, opResp))
    /\ events' = Append(events, [ev |-> IF failed THEN "logerr" ELSE "logok",
                                 batch |-> Len(calls)])
    /\ IF LoggerHalts(failed)
       THEN /\ ret' = Return(opResp, LoggerErr)
            /\ pc' = "done"
            /\ UNCHANGED i
       ELSE /\ pc' = "cc_loop"
            /\ i' = NextIndex(i, batchSz)
            /\ UNCHANGED ret
    /\ UNCHANGED <<qvars, xvars>>
    /\ UNCHANGED <<sv, op, allOrNone, recs, recs0, ids, delIDs, path, method, opResp, batchSz,
                   cmdRecs, res, calls, replies, inflight>>

\* sv.logger(ctx, i, cmdRecs, res)
CompositeLog(failed) ==
    /\ pc = "cc_log"
    /\ logs' = Append(logs, LogArgs(i, cmdRecs, res))
    /\ events' = Append(events, [ev |-> IF failed THEN "logerr" ELSE "logok",
                                 batch |-> Len(calls)])
    /\ IF LoggerHalts(failed)
       THEN /\ ret' = Return(opResp, LoggerErr)
            /\ pc' = "done"
            /\ UNCHANGED i
       ELSE /\ pc' = "cc_loop"
            /\ i' = NextIndex(i, batchSz)
            /\ UNCHANGED ret
    /\ UNCHANGED <<qvars, xvars>>
    /\ UNCHANGED <<sv, op, allOrNone, recs, recs0, ids, delIDs, path, method, opResp, batchSz,
                   cmdRecs, res, calls, replies, inflight>>

(* -------------------------- DeleteRecords ------------------------------ *)
\* the request of DeleteRecords carries the ids in the path, no body and
\* therefore no allOrNone flag
NoFlag == {}

\* entry of DeleteRecords: the zero-record guard and the locals
DeleteRecords(aon, idlist) ==
    /\ pc = "idle"
    /\ qpc = "idle"
    /\ op' = "DeleteRecords"
    /\ allOrNone' = aon
    /\ ids' = idlist
    /\ method' = "DELETE"
    /\ IF Len(idlist) <= 0
       THEN /\ ret' = ReturnNil(ErrZeroRecords)
            /\ pc' = "done"
            /\ UNCHANGED <<batchSz>>
       ELSE /\ batchSz' = MaxBatchSize(sv)
            /\ pc' = "dr_loop"
            /\ UNCHANGED <<ret>>
    /\ opResp' = <<>>
    /\ i' = 0
    /\ UNCHANGED <<qvars, xvars>>
    /\ UNCHANGED <<sv, recs, recs0, delIDs, path, cmdRecs, res, history>>

\* loop head of DeleteRecords: issue the Transport call for ids[i:numRecs],
\* or leave the loop and return
DeleteLoop ==
    /\ pc = "dr_loop"
    /\ IF i < Len(ids)
       THEN LET numRecs == Min(i + batchSz, Len(ids))
                batch == Slice(ids, i, numRecs)
            IN  /\ delIDs' = batch
                /\ path' = <<"composite/sobjects?ids=", batch>>
                /\ calls' = Append(calls, [path |-> <<"composite/sobjects?ids=", batch>>,
                                           method |-> "DELETE",
                                           allOrNone |-> NoFlag, records |-> <<>>,
                                           size |-> Len(batch),
                                           contentType |-> "",
                                           accept |-> acceptHeader(sv)])
                /\ events' = Append(events, [ev |-> "call", batch |-> Len(calls) + 1])
                /\ inflight' = inflight + 1
                /\ pc' = "dr_call"
                /\ UNCHANGED <<ret>>
       ELSE /\ ret' = Return(opResp, NoErr)
            /\ pc' = "done"
            /\ UNCHANGED <<delIDs, path, calls, events, inflight>>
    /\ UNCHANGED <<qvars, xvars>>
    /\ UNCHANGED <<sv, op, allOrNone, recs, recs0, ids, method, opResp, batchSz, i, cmdRecs,
                   res, replies, logs>>

\* sv.Call returned an error
DeleteCallFails ==
    /\ pc = "dr_call"
    /\ inflight' = inflight - 1
    /\ replies' = Append(replies, [ok |-> FALSE, res |-> <<>>])
    /\ events' = Append(events, [ev |-> "callerr", batch |-> Len(calls)])
    /\ ret' = Return(opResp, TransportErr)
    /\ pc' = "done"
    /\ UNCHANGED <<qvars, xvars>>
    /\ UNCHANGED <<sv, op, allOrNone, recs, recs0, ids, delIDs, path, method, opResp, batchSz, i,
                   cmdRecs, res, calls, logs>>

\* sv.Call returned res; append it, wrap the ids of the batch as DeleteID
\* and, without a logger, advance the loop
DeleteCallReturns(succ) ==
    /\ pc = "dr_call"
    /\ inflight' = inflight - 1
    /\ LET decoded == Response(Len(calls), Len(delIDs), succ)
       IN  /\ replies' = Append(replies, [ok |-> TRUE, res |-> decoded])
           /\ res' = decoded
           /\ opResp' = opResp \o decoded
    /\ events' = Append(events, [ev |-> "callok", batch |-> Len(calls)])
    /\ cmdRecs' = [j \in 1..Len(delIDs) |-> DeleteID(delIDs[j])]
    /\ IF sv.logger
       THEN /\ pc' = "dr_log"
            /\ UNCHANGED i
       ELSE /\ pc' = "dr_loop"
            /\ i' = i + batchSz
    /\ UNCHANGED <<qvars, xvars>>
    /\ UNCHANGED <<sv, op, allOrNone, recs, recs0, ids, delIDs, path, method, batchSz, ret,
                   calls, logs>>

\* sv.logger(ctx, i, delrecids, res)
DeleteLog(failed) ==
    /\ pc = "dr_log"
    /\ logs' = Append(logs, [offset |-> i, sobjects |-> cmdRecs, responses |-> res])
    /\ events' = Append(events, [ev |-> IF failed THEN "logerr" ELSE "logok",
                                 batch |-> Len(calls)])
    /\ IF failed
       THEN /\ ret' = ReturnNil(LoggerErr)
            /\ pc' = "done"
            /\ UNCHANGED i
       ELSE /\ pc' = "dr_loop"
            /\ i' = i + batchSz
            /\ UNCHANGED ret
    /\ UNCHANGED <<qvars, xvars>>
    /\ UNCHANGED <<sv, op, allOrNone, recs, recs0, ids, delIDs, path, method, opResp, batchSz,
                   cmdRecs, res, calls, replies, inflight>>

(* ------------------------- the collection engine ----------------------- *)
Next ==
    \/ \E b \in BatchSizeArgs : CfgBatchSize(b)
    \/ \E blf \in BOOLEAN : CfgLogger(blf)
    \/ \E aon \in BOOLEAN, rs \in SeqsUpTo(Entities, MaxRecs) : CreateRecords(aon, rs)
    \/ \E aon \in BOOLEAN, rs \in SeqsUpTo(Entities, MaxRecs) : UpdateRecords(aon, rs)
    \/ \E aon \in BOOLEAN, rs \in SeqsUpTo(Entities, MaxRecs) : UpsertRecords(aon, "ExtID", rs)
    \/ CompositeLoop
    \/ CompositeCallFails
    \/ \E succ \in [1..Len(cmdRecs) -> BOOLEAN] : CompositeCallReturns(succ)
    \/ \E failed \in BOOLEAN : CompositeLog(failed)
    \/ \E aon \in BOOLEAN, idlist \in SeqsUpTo(IDs, MaxRecs) : DeleteRecords(aon, idlist)
    \/ DeleteLoop
    \/ DeleteCallFails
    \/ \E succ \in [1..Len(delIDs) -> BOOLEAN] : DeleteCallReturns(succ)
    \/ \E failed \in BOOLEAN : DeleteLog(failed)

Spec == Init /\ [][Next]_vars

(* ======================= the paginated query reader ==================== *)
\* most Transport calls one Query is followed through
MaxPages == 3

\* most rows in one page, and in the caller's slice on entry
MaxPageRows == 2
MaxPre == 2

\* values passed to WithMaxrows
MaxrowsArgs == {-1, 0, 1, 2, 3}

\* query texts, as sequences of characters
Queries == { <<"a">>, <<"a", " ", "=">> }

WithMaxrows(s, maxrowsArg) ==
    [s EXCEPT !.maxrows = IF maxrowsArg < 0 THEN 0 ELSE maxrowsArg]

\* url.QueryEscape: a space becomes "+", reserved characters are
\* percent-encoded, letters are kept
EscapeChar(c) ==
    CASE c = " " -> "+"
      [] c = "=" -> "%3D"
      [] OTHER   -> c

\* a plausible slip: the query text is put in the path as it is
QueryEscape_Raw(qry) == qry
QueryEscape(qry) == [j \in 1..Len(qry) |-> EscapeChar(qry[j])]

\* rows already in the caller's slice, and the rows of the page number u
PreRows(n) == [j \in 1..n |-> <<0, j>>]
PageRows(u, n) == [j \in 1..n |-> <<u, j>>]

\* the envelope of page u as the service sends it: nextRecordsUrl is present
\* unless done
Page(u, n, done) ==
    [rows |-> PageRows(u, n),
     done |-> done,
     next |-> IF done THEN NoURL ELSE [kind |-> "next", text |-> <<>>, page |-> u + 1]]

\* json decoding of an envelope into the QueryResponse that is reused for
\* every page: a field that is absent keeps its previous value
DecodeEnvelope(r, page) ==
    [Done |-> page.done,
     NextRecordsURL |-> IF page.next.kind = "none" THEN r.NextRecordsURL ELSE page.next]

\* RecordSlice.UnmarshalJSON: reflect.AppendSlice(rs.resultsVal, tempSlice)
AppendSlice_Overwrite(slice, rows) == rows
AppendSlice(slice, rows) == slice \o rows

\* if sv.maxrows > 0 { if rs.rows() >= sv.maxrows {
CapReached_Exact(s, slice) == s.maxrows > 0 /\ Len(slice) = s.maxrows
CapReached(s, slice) == s.maxrows > 0 /\ Len(slice) >= s.maxrows

\* rs.slice(0, sv.maxrows)
Truncate_Keep(slice, n) == slice
Truncate(slice, n) == SubSeq(slice, 1, n)

CfgMaxrows(m) ==
    /\ pc = "idle"
    /\ qpc = "idle"
    /\ sv' = WithMaxrows(sv, m)
    /\ UNCHANGED <<pc, callLocals, history, qvars, xvars>>

\* the kinds of value passed as the results parameter: the nil interface, a
\* value that is not a pointer to a slice, a nil pointer to a slice, and a
\* pointer to a slice
ResultsParams == {"nil", "value", "nilptr", "ptrslice"}

\* the error of the checks of the results parameter: the type switch of query
\* and the kind test of NewRecordSlice
ParamError_Accept(param) == NoErr
ParamError(param) ==
    CASE param = "nil"   -> "results parameter may not be nil"
      [] param = "value" -> "expected *[]<struct>"
      [] OTHER           -> NoErr

\* NewRecordSlice takes slice.Type() of ptr.Elem(), which is the zero Value
\* for a nil pointer: the call panics
Panic == "panic: reflect.Value.Type on zero Value"

\* entry of query: the checks of the results parameter and the locals
QueryEntry(prefix, qry, param, slice) ==
    /\ pc = "idle"
    /\ qpc = "idle"
    /\ qarg' = [path |-> prefix, qry |-> qry]
    /\ results' = param
    /\ dest' = slice
    /\ dest0' = slice
    /\ CASE ParamError(param) # NoErr ->
              /\ qret' = ParamError(param)
              /\ qpc' = "done"
              /\ UNCHANGED <<qres, fmtQry>>
         [] param = "nilptr" ->
              /\ qret' = Panic
              /\ qpc' = "done"
              /\ UNCHANGED <<qres, fmtQry>>
         [] OTHER ->
              /\ qres' = [Done |-> FALSE, NextRecordsURL |-> NoURL]
              /\ fmtQry' = [kind |-> prefix, text |-> QueryEscape(qry), page |-> 0]
              /\ qpc' = "q_loop"
              /\ UNCHANGED qret
    /\ UNCHANGED <<xvars, cvars, qcalls, pages>>

Query(qry, param, slice) == QueryEntry("query/?q=", qry, param, slice)

QueryAll(qry, param, slice) == QueryEntry("queryAll/?q=", qry, param, slice)

\* for !res.Done
LoopContinues_Never(r) == FALSE
LoopContinues(r) == ~r.Done

\* for !res.Done: issue the Transport call of the next page on the copy of
\* the Service that has isqry set, or leave the loop and return nil
QueryLoop ==
    /\ qpc = "q_loop"
    /\ IF LoopContinues(qres)
       THEN /\ Len(qcalls) < MaxPages
            /\ qcalls' = Append(qcalls, [path |-> fmtQry, method |-> "GET",
                                         batchSize |-> MaxBatchSize([sv EXCEPT !.isqry = TRUE])])
            /\ qpc' = "q_call"
            /\ UNCHANGED qret
       ELSE /\ qret' = NoErr
            /\ qpc' = "done"
            /\ UNCHANGED qcalls
    /\ UNCHANGED <<xvars, cvars, qarg, results, dest, dest0, qres, fmtQry, pages>>

\* qsv.Call returned an error before it decoded anything: the request could
\* not be built or sent, or the status was not a success
QueryCallFails ==
    /\ qpc = "q_call"
    /\ qret' = TransportErr
    /\ qpc' = "done"
    /\ UNCHANGED <<xvars, cvars, qarg, results, dest, dest0, qres, fmtQry, qcalls, pages>>

\* qsv.Call returned the error of json Decode: a field of the envelope has
\* the wrong type, which the decoder records while it goes on with the other
\* fields, so that the n rows of the records field have been appended to the
\* caller's slice when the error is returned
QueryDecodeFails(n) ==
    /\ qpc = "q_call"
    /\ dest' = AppendSlice(dest, PageRows(Len(pages) + 1, n))
    /\ qret' = TransportErr
    /\ qpc' = "done"
    /\ UNCHANGED <<xvars, cvars, qarg, results, dest0, qres, fmtQry, qcalls, pages>>

\* a plausible slip: the row cap is not looked at
QueryCallReturns_NoCap(n, done) ==
    /\ qpc = "q_call"
    /\ LET page == Page(Len(pages) + 1, n, done)
           decoded == DecodeEnvelope(qres, page)
       IN  /\ pages' = Append(pages, page)
           /\ qres' = decoded
           /\ dest' = AppendSlice(dest, page.rows)
           /\ fmtQry' = decoded.NextRecordsURL
           /\ qpc' = "q_loop"
           /\ UNCHANGED qret
    /\ UNCHANGED <<xvars, cvars, qarg, results, dest0, qcalls>>

\* qsv.Call decoded a page of n rows into res: the rows are appended to the
\* caller's slice, then the row cap is applied or the next path is taken
\* from the response
QueryCallReturns(n, done) ==
    /\ qpc = "q_call"
    /\ LET page == Page(Len(pages) + 1, n, done)
           decoded == DecodeEnvelope(qres, page)
           grown == AppendSlice(dest, page.rows)
       IN  /\ pages' = Append(pages, page)
           /\ qres' = decoded
           /\ IF CapReached(sv, grown)
              THEN /\ dest' = Truncate(grown, sv.maxrows)
                   /\ qret' = NoErr
                   /\ qpc' = "done"
                   /\ UNCHANGED fmtQry
              ELSE /\ dest' = grown
                   /\ fmtQry' = decoded.NextRecordsURL
                   /\ qpc' = "q_loop"
                   /\ UNCHANGED qret
    /\ UNCHANGED <<xvars, cvars, qarg, results, dest0, qcalls>>

QNext ==
    \/ \E m \in MaxrowsArgs : CfgMaxrows(m)
    \/ \E b \in BatchSizeArgs : CfgBatchSize(b)
    \/ \E qry \in Queries, param \in ResultsParams, n \in 0..MaxPre :
          Query(qry, param, PreRows(n))
    \/ \E qry \in Queries, param \in ResultsParams, n \in 0..MaxPre :
          QueryAll(qry, param, PreRows(n))
    \/ QueryLoop
    \/ QueryCallFails
    \/ \E n \in 1..MaxPageRows : QueryDecodeFails(n)
    \/ \E n \in 0..MaxPageRows, done \in BOOLEAN : QueryCallReturns(n, done)

SpecQuery == Init /\ [][QNext]_vars

\* a server that holds finitely many pages: the page that makes MaxPages
\* reports done
FiniteServer(n, done) ==
    /\ (Len(pages) + 1 = MaxPages) => done
    /\ QueryCallReturns(n, done)

\* the Transport call in flight returns, with a page or with an error
QueryCallEnds ==
    \/ QueryCallFails
    \/ \E n \in 1..MaxPageRows : QueryDecodeFails(n)
    \/ \E n \in 0..MaxPageRows, done \in BOOLEAN : FiniteServer(n, done)

QNextLive ==
    \/ \E m \in MaxrowsArgs : CfgMaxrows(m)
    \/ \E qry \in Queries, param \in ResultsParams, n \in 0..MaxPre :
          Query(qry, param, PreRows(n))
    \/ QueryLoop
    \/ QueryCallEnds

\* query is sequential code that goes on by itself, and every Transport call
\* returns
SpecQueryLive ==
    /\ Init
    /\ [][QNextLive]_vars
    /\ WF_vars(QueryLoop)
    /\ WF_vars(QueryCallEnds)

(* ========================= OpResponses.Errors ========================== *)
\* most outcomes in the receiver of Errors, and most entities passed to it
MaxOut == 3

\* values passed as startIndex
StartIndexes == {0, 2}

\* the SObject field of an outcome that has none
NoSObject == [kind |-> "nil", key |-> "", attr |-> FALSE]

\* the outcome of position idx as json decoding leaves it: RecordIndex and
\* SObject are not json fields and keep their zero values
Outcome(idx, succ) ==
    [ID |-> idx, Success |-> succ, RecordIndex |-> 0, SObject |-> NoSObject]

\* a plausible slip: the index within the list is taken, startIndex is left out
ErrorsEntry_NoStart(o, idx, start, sobjs) ==
    IF ~o.Success /\ idx < Len(sobjs)
    THEN [o EXCEPT !.RecordIndex = idx, !.SObject = sobjs[idx + 1]]
    ELSE o

\* the body of the loop of Errors for position idx (from 0): a failed outcome
\* is given its index and entity, in place, only if idx < len(sobjects)
ErrorsEntry(o, idx, start, sobjs) ==
    IF ~o.Success /\ idx < Len(sobjs)
    THEN [o EXCEPT !.RecordIndex = idx + start, !.SObject = sobjs[idx + 1]]
    ELSE o

\* the receiver after Errors, and the list it returns
ErrorsReceiver(os, start, sobjs) ==
    [j \in 1..Len(os) |-> ErrorsEntry(os[j], j - 1, start, sobjs)]

ErrorsResult(os, start, sobjs) ==
    SelectSeq(ErrorsReceiver(os, start, sobjs), LAMBDA o : ~o.Success)

InitErrors ==
    /\ InitEngine
    /\ InitBuild
    /\ epc = "idle"
    /\ \E flags \in SeqsUpTo(BOOLEAN, MaxOut) :
          /\ oprs = [j \in 1..Len(flags) |-> Outcome(j - 1, flags[j])]
          /\ oprs0 = [j \in 1..Len(flags) |-> Outcome(j - 1, flags[j])]
    /\ startIndex \in StartIndexes
    /\ sobjects \in SeqsUpTo(Entities, MaxOut)
    /\ errReponses = <<>>
    /\ InitIdle

\* oprs.Errors(startIndex, sobjects)
Errors ==
    /\ epc = "idle"
    /\ oprs' = ErrorsReceiver(oprs, startIndex, sobjects)
    /\ errReponses' = ErrorsResult(oprs, startIndex, sobjects)
    /\ epc' = "called"
    /\ UNCHANGED <<cvars, qvars, bvars, pvars, oprs0, startIndex, sobjects>>

ENext == Errors

SpecErrors == InitErrors /\ [][ENext]_vars

(* ========================= the With... builders ======================== *)
\* snew.baseURL, _ = url.Parse(newURL)
WithURL(s, newURL) == [s EXCEPT !.baseURL = newURL]

WithCtxClientFunc(s, f) == [s EXCEPT !.cf = f]

WithAcceptContentType(s, accept, contentType) ==
    [s EXCEPT !.contentType = contentType, !.accept = accept]

\* the record of a builder call: its name, its argument, and where the call
\* running on the receiver was when it was made
Built(name, n, flag, text) ==
    [builder |-> name, n |-> n, flag |-> flag, text |-> text, at |-> <<pc, qpc>>]

\* a plausible slip: the builder writes through the receiver
Build_InPlace(name, n, flag, text, snew) ==
    /\ sv' = snew
    /\ derived' = snew
    /\ built' = Built(name, n, flag, text)
    /\ UNCHANGED <<pc, callLocals, history, qvars, evars, pvars>>

\* a builder called on the Service sv, idle or with a call running on it:
\* snew := *sv; <set the field>; return &snew
Build(name, n, flag, text, snew) ==
    /\ derived' = snew
    /\ built' = Built(name, n, flag, text)
    /\ UNCHANGED <<cvars, qvars, evars, pvars>>

BuildBatchSize(b) == Build("WithBatchSize", b, FALSE, <<>>, WithBatchSize(sv, b))

BuildMaxrows(m) == Build("WithMaxrows", m, FALSE, <<>>, WithMaxrows(sv, m))

BuildLogger(blf) == Build("WithLogger", 0, blf, <<>>, WithLogger(sv, blf))

BuildURL(newURL) == Build("WithURL", 0, FALSE, <<newURL>>, WithURL(sv, newURL))

BuildCtxClientFunc(f) ==
    Build("WithCtxClientFunc", 0, FALSE, <<f>>, WithCtxClientFunc(sv, f))

BuildAcceptContentType(accept, contentType) ==
    Build("WithAcceptContentType", 0, FALSE, <<accept, contentType>>,
          WithAcceptContentType(sv, accept, contentType))

\* the caller goes on with the Service a builder returned:
\* sv = sv.WithBatchSize(100)
Adopt ==
    /\ pc = "idle"
    /\ qpc = "idle"
    /\ sv' = derived
    /\ UNCHANGED <<pc, callLocals, history, qvars, xvars>>

\* the fields a builder sets in the copy
FieldsSetBy(name) ==
    CASE name = "WithBatchSize"         -> {"batchSize"}
      [] name = "WithMaxrows"           -> {"maxrows"}
      [] name = "WithLogger"            -> {"logger"}
      [] name = "WithURL"               -> {"baseURL"}
      [] name = "WithCtxClientFunc"     -> {"cf"}
      [] name = "WithAcceptContentType" -> {"accept", "contentType"}
      [] OTHER                          -> {}

\* the batch sizes passed to WithBatchSize around the limits of both modes
WideBatchSizeArgs == {-1, 0, 1, 199, 200, 201, 1999, 2000, 2001}

\* a struct entity to write
OneEntity == [kind |-> "struct", key |-> "a", attr |-> FALSE]

\* a short collection call and a short query on the Service the caller holds
ShortCall ==
    \/ \E rs \in SeqsUpTo({OneEntity}, 2) : CreateRecords(FALSE, rs)
    \/ CompositeLoop
    \/ \E succ \in [1..Len(cmdRecs) -> {TRUE}] : CompositeCallReturns(succ)

ShortQuery ==
    \/ Query(<<"a">>, "ptrslice", <<>>)
    \/ QueryLoop
    \/ \E done \in BOOLEAN : QueryCallReturns(1, done)

\* batch sizes of every kind, adopted and used by calls
NextBatch ==
    \/ \E b \in WideBatchSizeArgs : BuildBatchSize(b)
    \/ Adopt
    \/ ShortCall
    \/ ShortQuery

SpecBatch == Init /\ [][NextBatch]_vars

\* arguments of the builders
BuildURLs == {"http://127.0.0.1/"}
BuildFuncs == {"f"}
BuildTypes == {"", "text/csv"}

\* every builder, called at any point of a call
NextBuild ==
    \/ \E b \in {1} : BuildBatchSize(b)
    \/ \E m \in {1} : BuildMaxrows(m)
    \/ \E blf \in BOOLEAN : BuildLogger(blf)
    \/ \E u \in BuildURLs : BuildURL(u)
    \/ \E f \in BuildFuncs : BuildCtxClientFunc(f)
    \/ \E a \in BuildTypes, c \in BuildTypes : BuildAcceptContentType(a, c)
    \/ Adopt
    \/ ShortCall
    \/ CompositeLog(FALSE)
    \/ ShortQuery

SpecBuild == Init /\ [][NextBuild]_vars

(* ============ genpkgs: Config.ReadSObjectDescriptions ==================== *)
\* most objects of job.ObjMap
MaxObjs == 3

\* everything the worker pool leaves alone
notPool == <<cvars, qvars, bvars, evars, kvars>>

\* a plausible slip: the mutex never makes anyone wait
MutexFree_Always(holder) == TRUE

\* m.Lock() goes through only while nobody holds m
MutexFree(holder) == holder = 0

\* checkError(): len(el) > 0, read under mErr
checkError == Len(el) > 0

\* cfg.CreateJob fails: ReadSObjectDescriptions returns nil and its error
CreateJobFails ==
    /\ ppc = "idle"
    /\ pc = "idle"
    /\ qpc = "idle"
    /\ ppc' = "returned"
    /\ pret' = "createErr"
    /\ UNCHANGED <<nObjs, nextObj, closed, wpc, wobj, wlocal, el, jobM, wgN, StructMap,
                   handed, matchedObjs, failedObjs, notPool>>

\* job created with n objects in ObjMap; sendChannel made; the workers are
\* started, each after job.wg.Add(1)
StartWorkers(n) ==
    /\ ppc = "idle"
    /\ pc = "idle"
    /\ qpc = "idle"
    /\ nObjs' = n
    /\ nextObj' = 1
    /\ wgN' = numberOfGoRoutines
    /\ wpc' = [w \in Workers |-> "recv"]
    /\ ppc' = "check"
    /\ UNCHANGED <<closed, wobj, wlocal, el, jobM, pret, StructMap, handed, matchedObjs,
                   failedObjs, notPool>>

\* head of the producer's loop: the range is exhausted, or checkError()
\* breaks out of it, or the next object is to be sent
ProducerCheck ==
    /\ ppc = "check"
    /\ ppc' = IF nextObj > nObjs \/ checkError THEN "close" ELSE "send"
    /\ UNCHANGED <<nObjs, nextObj, closed, wpc, wobj, wlocal, el, jobM, wgN, pret, StructMap,
                   handed, matchedObjs, failedObjs, notPool>>

\* sendChannel <- v meets the receive of worker w's range: the channel is
\* unbuffered, so the send completes only with a worker waiting to receive
Send(w) ==
    /\ ppc = "send"
    /\ wpc[w] = "recv"
    /\ wobj' = [wobj EXCEPT ![w] = nextObj]
    /\ wpc' = [wpc EXCEPT ![w] = "assign"]
    /\ handed' = Append(handed, <<nextObj, w>>)
    /\ nextObj' = nextObj + 1
    /\ ppc' = "check"
    /\ UNCHANGED <<nObjs, closed, wlocal, el, jobM, wgN, pret, StructMap, matchedObjs,
                   failedObjs, notPool>>

\* close(sendChannel)
Close ==
    /\ ppc = "close"
    /\ closed' = TRUE
    /\ ppc' = "wait"
    /\ UNCHANGED <<nObjs, nextObj, wpc, wobj, wlocal, el, jobM, wgN, pret, StructMap, handed,
                   matchedObjs, failedObjs, notPool>>

\* job.wg.Wait() returns once the counter is 0; el decides what is returned
WaitReturns ==
    /\ ppc = "wait"
    /\ wgN = 0
    /\ pret' = IF Len(el) > 0 THEN "errors" ELSE "job"
    /\ ppc' = "returned"
    /\ UNCHANGED <<nObjs, nextObj, closed, wpc, wobj, wlocal, el, jobM, wgN, StructMap, handed,
                   matchedObjs, failedObjs, notPool>>

\* AssignSObjects: no package matches the object; nil is returned and the
\* worker goes back to its range
AssignNoMatch(w) ==
    /\ wpc[w] = "assign"
    /\ wpc' = [wpc EXCEPT ![w] = "recv"]
    /\ UNCHANGED <<ppc, nObjs, nextObj, closed, wobj, wlocal, el, jobM, wgN, pret, StructMap,
                   handed, matchedObjs, failedObjs, notPool>>

\* AssignSObjects: a package matches and sv.Describe fails; the error is
\* returned to the worker
DescribeFails(w) ==
    /\ wpc[w] = "assign"
    /\ failedObjs' = failedObjs \cup {wobj[w]}
    /\ wpc' = [wpc EXCEPT ![w] = "failed"]
    /\ UNCHANGED <<ppc, nObjs, nextObj, closed, wobj, wlocal, el, jobM, wgN, pret, StructMap,
                   handed, matchedObjs, notPool>>

\* AssignSObjects: a package matches and sv.Describe succeeds; job.Struct
\* builds the Struct
DescribeReturns(w) ==
    /\ wpc[w] = "assign"
    /\ matchedObjs' = matchedObjs \cup {wobj[w]}
    /\ wpc' = [wpc EXCEPT ![w] = "lock"]
    /\ UNCHANGED <<ppc, nObjs, nextObj, closed, wobj, wlocal, el, jobM, wgN, pret, StructMap,
                   handed, failedObjs, notPool>>

\* job.m.Lock(), then the slice job.StructMap[p] is read for the append
LockJob(w) ==
    /\ wpc[w] = "lock"
    /\ MutexFree(jobM)
    /\ jobM' = w
    /\ wlocal' = [wlocal EXCEPT ![w] = StructMap]
    /\ wpc' = [wpc EXCEPT ![w] = "append"]
    /\ UNCHANGED <<ppc, nObjs, nextObj, closed, wobj, el, wgN, pret, StructMap, handed,
                   matchedObjs, failedObjs, notPool>>

\* the appended slice is stored in job.StructMap[p]; job.m.Unlock();
\* AssignSObjects returns nil
AppendStruct(w) ==
    /\ wpc[w] = "append"
    /\ StructMap' = Append(wlocal[w], wobj[w])
    /\ jobM' = 0
    /\ wpc' = [wpc EXCEPT ![w] = "recv"]
    /\ UNCHANGED <<ppc, nObjs, nextObj, closed, wobj, wlocal, el, wgN, pret, handed,
                   matchedObjs, failedObjs, notPool>>

\* the worker records the error in el under mErr and breaks out of its range
RecordError(w) ==
    /\ wpc[w] = "failed"
    /\ el' = Append(el, wobj[w])
    /\ wpc' = [wpc EXCEPT ![w] = "exit"]
    /\ UNCHANGED <<ppc, nObjs, nextObj, closed, wobj, wlocal, jobM, wgN, pret, StructMap, handed,
                   matchedObjs, failedObjs, notPool>>

\* the worker's range ends because sendChannel is closed
RangeEnds(w) ==
    /\ wpc[w] = "recv"
    /\ closed
    /\ wpc' = [wpc EXCEPT ![w] = "exit"]
    /\ UNCHANGED <<ppc, nObjs, nextObj, closed, wobj, wlocal, el, jobM, wgN, pret, StructMap,
                   handed, matchedObjs, failedObjs, notPool>>

\* job.wg.Done(): the goroutine ends
WgDone(w) ==
    /\ wpc[w] = "exit"
    /\ wgN' = wgN - 1
    /\ wpc' = [wpc EXCEPT ![w] = "done"]
    /\ UNCHANGED <<ppc, nObjs, nextObj, closed, wobj, wlocal, el, jobM, pret, StructMap, handed,
                   matchedObjs, failedObjs, notPool>>

\* the goroutine of ReadSObjectDescriptions
Producer ==
    \/ CreateJobFails
    \/ \E n \in 0..MaxObjs : StartWorkers(n)
    \/ ProducerCheck
    \/ \E w \in Workers : Send(w)
    \/ Close
    \/ WaitReturns

\* worker goroutine w
Worker(w) ==
    \/ AssignNoMatch(w)
    \/ DescribeFails(w)
    \/ DescribeReturns(w)
    \/ LockJob(w)
    \/ AppendStruct(w)
    \/ RecordError(w)
    \/ RangeEnds(w)
    \/ WgDone(w)

PNext == Producer \/ \E w \in Workers : Worker(w)

SpecPool == Init /\ [][PNext]_vars

\* every goroutine that can take a step is scheduled in the end, and every
\* Describe call returns
SpecPoolLive ==
    Init /\ [][PNext]_vars /\ WF_vars(Producer) /\ \A w \in Workers : WF_vars(Worker(w))

(* ================= the SObject type catalog ============================ *)
\* most SObjects in one RegisterSObjectTypes call
MaxReg == 2

\* everything the catalog leaves alone
notCatalog == <<cvars, qvars, bvars, evars, gvars>>

\* goroutines other than g that are in the middle of a map access that
\* conflicts with an access of g (a write if g reads; any access if g writes)
Conflicting(g, writes) ==
    {h \in Goroutines \ {g} : kpc[h] = "store" \/ (writes /\ kpc[h] = "read")}

\* the overlap is recorded for both sides
MarkRaced(g, writes) ==
    [h \in Goroutines |->
        IF h = g THEN Conflicting(g, writes) # {}
        ELSE kraced[h] \/ h \in Conflicting(g, writes)]

\* reflect.TypeOf(o) for the SObject whose SObjectName() is nm
TypeOf(nm) == nm

\* RegisterSObjectTypes(sobjs...)
RegisterSObjectTypes(g, sobjs) ==
    /\ kpc[g] = "idle"
    /\ pc = "idle"
    /\ qpc = "idle"
    /\ ppc = "idle"
    /\ kargs' = [kargs EXCEPT ![g] = sobjs]
    /\ kidx' = [kidx EXCEPT ![g] = 1]
    /\ kpc' = [kpc EXCEPT ![g] = "loop"]
    /\ UNCHANGED <<sobjCatalog, catM, kraced, kgot, notCatalog>>

\* head of the range over sobjs: the function returns, or the store of the
\* next map entry begins; sobjCatalog.m is not taken
RegisterLoop(g) ==
    /\ kpc[g] = "loop"
    /\ IF kidx[g] > Len(kargs[g])
       THEN /\ kpc' = [kpc EXCEPT ![g] = "returned"]
            /\ UNCHANGED kraced
       ELSE /\ kpc' = [kpc EXCEPT ![g] = "store"]
            /\ kraced' = MarkRaced(g, TRUE)
    /\ UNCHANGED <<sobjCatalog, catM, kargs, kidx, kgot, notCatalog>>

\* the outcomes of a map store: the entry is set; a store that overlapped
\* another access of the map may also be lost
StoreOutcomes(g) ==
    LET nm == kargs[g][kidx[g]]
    IN  {[sobjCatalog EXCEPT ![nm] = TypeOf(nm)]} \cup
        (IF kraced[g] THEN {sobjCatalog} ELSE {})

\* sobjCatalog.sobjects[o.SObjectName()] = reflect.TypeOf(o) completes
RegisterStore(g) ==
    /\ kpc[g] = "store"
    /\ sobjCatalog' \in StoreOutcomes(g)
    /\ kidx' = [kidx EXCEPT ![g] = kidx[g] + 1]
    /\ kpc' = [kpc EXCEPT ![g] = "loop"]
    /\ UNCHANGED <<catM, kargs, kraced, kgot, notCatalog>>

\* Any.UnmarshalJSON: the attributes are decoded and name the type nm
UnmarshalJSON(g, nm) ==
    /\ kpc[g] = "idle"
    /\ pc = "idle"
    /\ qpc = "idle"
    /\ ppc = "idle"
    /\ kargs' = [kargs EXCEPT ![g] = <<nm>>]
    /\ kpc' = [kpc EXCEPT ![g] = "lock"]
    /\ UNCHANGED <<sobjCatalog, catM, kidx, kraced, kgot, notCatalog>>

\* Any.UnmarshalJSON: no attributes in the input; an error is returned
\* before the catalog is used
UnmarshalNoAttributes(g) ==
    /\ kpc[g] = "idle"
    /\ pc = "idle"
    /\ qpc = "idle"
    /\ ppc = "idle"
    /\ kgot' = [kgot EXCEPT ![g] = "error"]
    /\ kpc' = [kpc EXCEPT ![g] = "returned"]
    /\ UNCHANGED <<sobjCatalog, catM, kargs, kidx, kraced, notCatalog>>

\* getNewValue: c.m.Lock(), then the lookup c.sobjects[name] begins
GetLock(g) ==
    /\ kpc[g] = "lock"
    /\ catM = ""
    /\ catM' = g
    /\ kpc' = [kpc EXCEPT ![g] = "read"]
    /\ kraced' = MarkRaced(g, FALSE)
    /\ UNCHANGED <<sobjCatalog, kargs, kidx, kgot, notCatalog>>

\* the new value of a lookup: the registered type, or RecordMap
Lookup(nm) == IF sobjCatalog[nm] # "" THEN sobjCatalog[nm] ELSE "RecordMap"

\* the outcomes of a lookup: a lookup that overlapped a store may find the
\* entry, miss it, or end the program with a runtime fault
LookupOutcomes(g) ==
    {Lookup(kargs[g][1])} \cup
    (IF kraced[g] THEN {TypeOf(kargs[g][1]), "RecordMap", "fault"} ELSE {})

\* getNewValue: the lookup completes, the value is made, c.m.Unlock()
GetReturns(g) ==
    /\ kpc[g] = "read"
    /\ kgot' \in {[kgot EXCEPT ![g] = v] : v \in LookupOutcomes(g)}
    /\ catM' = ""
    /\ kpc' = [kpc EXCEPT ![g] = "returned"]
    /\ UNCHANGED <<sobjCatalog, kargs, kidx, kraced, notCatalog>>

KNext ==
    \/ \E g \in Registrars, sobjs \in SeqsUpTo(SObjNames, MaxReg) : RegisterSObjectTypes(g, sobjs)
    \/ \E g \in Registrars : RegisterLoop(g)
    \/ \E g \in Registrars : RegisterStore(g)
    \/ \E g \in Unmarshalers, nm \in SObjNames : UnmarshalJSON(g, nm)
    \/ \E g \in Unmarshalers : UnmarshalNoAttributes(g)
    \/ \E g \in Unmarshalers : GetLock(g)
    \/ \E g \in Unmarshalers : GetReturns(g)

SpecCatalog == Init /\ [][KNext]_vars

(* ===================== properties of the collection engine ============= *)
Called == op # "none"

InputLen == IF op = "DeleteRecords" THEN Len(ids) ELSE Len(recs)

\* the keys of the caller's list, and of the items carried by one request
InputKeys ==
    IF op = "DeleteRecords" THEN ids ELSE [j \in 1..Len(recs) |-> recs[j].key]

CallKeys(c) ==
    IF c.method = "DELETE" THEN c.path[2]
    ELSE [j \in 1..Len(c.records) |-> c.records[j].key]

\* the effective batch size of the Service, and ceil(N/B)
EffBatch == MaxBatchSize(sv)
NumBatches == (InputLen + EffBatch - 1) \div EffBatch

\* over the first n requests: the number of items, their keys in submission
\* order, the <<request, position>> of every item, and the outcomes served
RECURSIVE SumSizes(_)
SumSizes(n) == IF n = 0 THEN 0 ELSE SumSizes(n - 1) + calls[n].size

RECURSIVE FlatKeys(_)
FlatKeys(n) == IF n = 0 THEN <<>> ELSE FlatKeys(n - 1) \o CallKeys(calls[n])

RECURSIVE FlatPos(_)
FlatPos(n) ==
    IF n = 0 THEN <<>>
    ELSE FlatPos(n - 1) \o [j \in 1..calls[n].size |-> <<n, j>>]

RECURSIVE FlatReplies(_)
FlatReplies(n) == IF n = 0 THEN <<>> ELSE FlatReplies(n - 1) \o replies[n].res

LastEvent == events[Len(events)]

NoAbortEvent == \A n \in 1..Len(events) : events[n].ev \notin {"callerr", "logerr"}

HasFailedOutcome ==
    \E k \in 1..Len(replies) : \E j \in 1..Len(replies[k].res) : ~replies[k].res[j].Success

\* C1: a collection-write call with an empty (or nil) list returns nil
\* results and ErrZeroRecords, and neither Transport nor the logger is ever
\* invoked by it.
C1_ZeroRecords ==
    (Called /\ InputLen = 0) =>
        /\ pc = "done"
        /\ ret.isNil
        /\ ret.results = <<>>
        /\ ret.err = ErrZeroRecords
        /\ calls = <<>>
        /\ logs = <<>>
        /\ events = <<>>
        /\ inflight = 0

C1_Witness ==
    /\ op = "UpsertRecords"
    /\ InputLen = 0
    /\ sv.logger
    /\ pc = "done"
    /\ ret.err = ErrZeroRecords

\* C2: a collection-write call that returns a nil error returns exactly one
\* outcome per input item, and the outcome at position idx is the one the
\* service returned for input item idx, whatever the batch size.
C2_ResultsAligned ==
    (pc = "done" /\ ret.err = NoErr) =>
        /\ ~ret.isNil
        /\ Len(ret.results) = InputLen
        /\ Len(FlatPos(Len(calls))) = InputLen
        /\ \A idx \in 1..InputLen :
              LET p == FlatPos(Len(calls))[idx]
              IN  /\ CallKeys(calls[p[1]])[p[2]] = InputKeys[idx]
                  /\ ret.results[idx] = replies[p[1]].res[p[2]]
                  /\ ret.results[idx].ID = p

C2_Witness ==
    /\ pc = "done"
    /\ ret.err = NoErr
    /\ InputLen = 3
    /\ EffBatch = 2
    /\ Len(calls) = 2
    /\ Len(ret.results) = 3

\* C3: when the logger returns an error on batch k, the call returns that
\* error together with exactly the outcomes of batches 1..k (not nil, not a
\* shorter list).
C3_LoggerErrorKeepsAggregate ==
    (pc = "done" /\ Len(events) > 0 /\ LastEvent.ev = "logerr") =>
        /\ ret.err = LoggerErr
        /\ ~ret.isNil
        /\ ret.results = FlatReplies(LastEvent.batch)
        /\ Len(ret.results) = SumSizes(LastEvent.batch)

\* C4: when the Transport call of batch k fails, the call stops at once and
\* returns the transport error with exactly the outcomes of batches 1..k-1;
\* the logger is not invoked for batch k and no later Transport call is issued.
C4_TransportErrorStops ==
    \A n \in 1..Len(events) :
        events[n].ev = "callerr" =>
            LET k == events[n].batch
            IN  /\ n = Len(events)
                /\ k = Len(calls)
                /\ pc = "done"
                /\ inflight = 0
                /\ ret.err = TransportErr
                /\ ret.results = FlatReplies(k - 1)
                /\ Len(ret.results) = SumSizes(k - 1)
                /\ Len(logs) <= k - 1
                /\ \A m \in 1..Len(events) :
                      events[m].ev \in {"logok", "logerr"} => events[m].batch < k

C4_Witness ==
    /\ pc = "done"
    /\ sv.logger
    /\ Len(events) > 0
    /\ LastEvent.ev = "callerr"
    /\ LastEvent.batch = 2
    /\ Len(ret.results) = 2
    /\ InputLen = 3

\* C5: a non-empty input of N items is partitioned, for the effective batch
\* size B, into contiguous non-overlapping batches of 1..B items submitted in
\* order, all but the last of exactly B items; a call that completes has
\* submitted ceil(N/B) batches whose concatenation is the original list.
C5_Partition ==
    Called =>
        /\ Len(calls) <= NumBatches
        /\ SumSizes(Len(calls)) <= InputLen
        /\ FlatKeys(Len(calls)) = SubSeq(InputKeys, 1, SumSizes(Len(calls)))
        /\ \A k \in 1..Len(calls) :
              /\ calls[k].size \in 1..EffBatch
              /\ calls[k].size = Len(CallKeys(calls[k]))
              /\ k < Len(calls) => calls[k].size = EffBatch
        /\ (pc = "done" /\ ret.err = NoErr) =>
              /\ Len(calls) = NumBatches
              /\ SumSizes(Len(calls)) = InputLen
              /\ FlatKeys(Len(calls)) = InputKeys

C5_Witness ==
    /\ pc = "done"
    /\ ret.err = NoErr
    /\ InputLen = 3
    /\ EffBatch = 2
    /\ Len(calls) = 2
    /\ calls[1].size = 2
    /\ calls[2].size = 1

\* C6: once the logger has returned an error on batch k, the call is over:
\* no Transport call and no logger invocation follows it.
C6_LoggerErrorStops ==
    \A n \in 1..Len(events) :
        events[n].ev = "logerr" =>
            /\ n = Len(events)
            /\ pc = "done"
            /\ inflight = 0
            /\ Len(calls) = events[n].batch
            /\ Len(logs) = events[n].batch

C6_Witness ==
    /\ pc = "done"
    /\ Len(events) > 0
    /\ LastEvent.ev = "logerr"
    /\ LastEvent.batch = 1
    /\ NumBatches >= 2

\* C7: with a logger configured the events of one call strictly alternate
\* Transport(1), Logger(1), Transport(2), Logger(2), ...: the logger of batch
\* k runs exactly once, after batch k's Transport call returned successfully
\* and before batch k+1's call is issued; at most one Transport call is in
\* flight.
C7_Alternation ==
    (Called /\ sv.logger) =>
        /\ inflight \in {0, 1}
        /\ inflight = 1 <=> (Len(events) > 0 /\ LastEvent.ev = "call")
        /\ Len(logs) = Cardinality({n \in 1..Len(events) : events[n].ev \in {"logok", "logerr"}})
        /\ \A n \in 1..Len(events) :
              /\ events[n].batch = (n + 2) \div 3
              /\ (n % 3 = 1) => events[n].ev = "call"
              /\ (n % 3 = 2) => events[n].ev \in {"callok", "callerr"}
              /\ (n % 3 = 0) => /\ events[n].ev \in {"logok", "logerr"}
                                /\ events[n - 1].ev = "callok"

C7_Witness ==
    /\ sv.logger
    /\ Len(events) = 6
    /\ events[6].ev = "logok"
    /\ Len(logs) = 2

\* C8: the offset passed to the k-th logger invocation is the number of input
\* items in batches 1..k-1 (0 for the first batch), and strictly increases
\* over the invocations of one call.
C8_LogOffset ==
    \A k \in 1..Len(logs) :
        /\ logs[k].offset = SumSizes(k - 1)
        /\ k = 1 => logs[k].offset = 0
        /\ k > 1 => logs[k].offset > logs[k - 1].offset

C8_Witness ==
    /\ Len(logs) = 2
    /\ logs[2].offset = 2
    /\ InputLen = 3

\* C9: a response holding outcomes with success=false is not an error of the
\* call: it ends with an error only after a Transport or logger error, and
\* otherwise returns nil error after submitting every batch, with the failed
\* outcomes at the positions of their source items.
C9_RecordFailuresAreData ==
    (pc = "done" /\ HasFailedOutcome) =>
        /\ ret.err = NoErr <=> NoAbortEvent
        /\ ret.err = NoErr =>
              /\ Len(calls) = NumBatches
              /\ Len(ret.results) = InputLen
              /\ \A idx \in 1..InputLen :
                    LET p == FlatPos(Len(calls))[idx]
                    IN  ret.results[idx].Success = replies[p[1]].res[p[2]].Success

C9_Witness ==
    /\ pc = "done"
    /\ ret.err = NoErr
    /\ Len(calls) = 3
    /\ ~replies[1].res[1].Success
    /\ ~ret.results[1].Success
    /\ ret.results[3].Success

\* C16: a collection-write call never changes the entities the caller
\* passed: whatever their kind, the items of the caller's list are the same
\* after the call as on entry, and the tag is only on the transmitted copies.
C16_CallerEntitiesUntouched ==
    (Called /\ op # "DeleteRecords") =>
        /\ recs = recs0
        /\ \A k \in 1..Len(calls) : \A j \in 1..calls[k].size : calls[k].records[j].attr

\* C18: the engine never retries: every Transport call of one call carries
\* the next range of input items that no earlier call carried, nothing is
\* issued after a call that failed, and there are at most ceil(N/B) calls.
C18_NoRetry ==
    Called =>
        /\ Len(calls) <= NumBatches
        /\ Len(calls) = Cardinality({n \in 1..Len(events) : events[n].ev = "call"})
        /\ SumSizes(Len(calls)) <= InputLen
        /\ \A k \in 1..Len(calls) :
              /\ calls[k].size >= 1
              /\ CallKeys(calls[k]) = SubSeq(InputKeys, SumSizes(k - 1) + 1, SumSizes(k))
        /\ \A n \in 1..Len(events) :
              events[n].ev = "callerr" =>
                  /\ n = Len(events)
                  /\ events[n].batch = Len(calls)
                  /\ pc = "done"

C18_Witness ==
    /\ pc = "done"
    /\ ret.err = TransportErr
    /\ InputLen = 3
    /\ EffBatch = 1
    /\ Len(calls) = 2
    /\ replies[1].ok
    /\ ~replies[2].ok

\* C20: the k-th logger invocation receives the data of batch k only: the
\* tagged items of input positions offset..offset+size-1 in order (for
\* DeleteRecords one DeleteID wrapper per id of the batch, in order) and the
\* outcomes decoded from the response of batch k, not the aggregate.
C20_LogReceivesBatch ==
    \A k \in 1..Len(logs) :
        LET lg == logs[k]
        IN  /\ Len(lg.sobjects) = calls[k].size
            /\ lg.offset + calls[k].size <= InputLen
            /\ \A j \in 1..Len(lg.sobjects) :
                  /\ lg.sobjects[j].key = InputKeys[lg.offset + j]
                  /\ IF op = "DeleteRecords"
                     THEN lg.sobjects[j] = DeleteID(ids[lg.offset + j])
                     ELSE /\ lg.sobjects[j] = WithAttr(recs0[lg.offset + j])
                          /\ lg.sobjects[j] = calls[k].records[j]
            /\ replies[k].ok
            /\ lg.responses = replies[k].res
            /\ Len(lg.responses) = calls[k].size

C20_Witness ==
    /\ op = "DeleteRecords"
    /\ Len(logs) = 2
    /\ logs[2].offset = 2
    /\ Len(logs[2].sobjects) = 1
    /\ logs[2].sobjects[1] = DeleteID(ids[3])
    /\ Len(logs[2].responses) = 1
    /\ Len(opResp) = 3

\* C22: every Transport call of CreateRecords, UpdateRecords, UpsertRecords
\* and DeleteRecords carries the allOrNone value the caller passed, in every
\* batch.
C22_AllOrNoneCarried ==
    \A k \in 1..Len(calls) : calls[k].allOrNone = {allOrNone}

(* ===================== properties of the configuration ================= *)
\* the effective batch size of the Service a builder returned, for the
\* collection operations and for the Sforce-Query-Options header
DerivedBatch == MaxBatchSize(derived)
DerivedQueryBatch == MaxBatchSize([derived EXCEPT !.isqry = TRUE])

\* the effective batch sizes are within their limits, in the Service a
\* builder returned and in the calls that run
BatchSizeInRange ==
    /\ DerivedBatch \in 1..200
    /\ DerivedQueryBatch \in 200..2000
    /\ (pc \notin {"idle", "done"}) => (batchSz \in 1..200 /\ batchSz = MaxBatchSize(sv))
    /\ \A k \in 1..Len(calls) : calls[k].size \in 1..200
    /\ \A k \in 1..Len(qcalls) :
          /\ qcalls[k].batchSize \in 200..2000
          /\ qcalls[k].batchSize = MaxBatchSize([sv EXCEPT !.isqry = TRUE])

C17_BuildersCopy ==
    /\ [][ /\ (pc # "idle" \/ qpc # "idle") => sv' = sv
           /\ bvars' # bvars =>
                 /\ sv' = sv
                 /\ \A f \in DOMAIN sv :
                       f \notin FieldsSetBy(built'.builder) => derived'[f] = sv[f] ]_vars
    /\ [](pc \notin {"idle", "done"} => batchSz = MaxBatchSize(sv))
    /\ [](Len(logs) > 0 => sv.logger)

C17_Witness ==
    /\ built.builder = "WithLogger"
    /\ built.at[1] = "cc_call"
    /\ ~derived.logger
    /\ sv.logger
    /\ sv.batchSize = 1
    /\ sv.maxrows = 1
    /\ pc = "done"
    /\ Len(logs) = 2

\* C23: as documented for WithBatchSize, a batch size set to any value less
\* than 200 makes query operations use 200, and a batch size set to any value
\* greater than 200 makes collection calls use 200.
C23_DocumentedLimits ==
    /\ built.builder = "WithBatchSize" =>
          /\ built.n < 200 => DerivedQueryBatch = 200
          /\ built.n > 200 => DerivedBatch = 200
    /\ (built.builder = "WithBatchSize" /\ sv = derived) =>
          /\ built.n < 200 => \A k \in 1..Len(qcalls) : qcalls[k].batchSize = 200
          /\ built.n > 200 => (pc \notin {"idle", "done"} => batchSz = 200)

\* C24: as documented for WithAcceptContentType, an empty string passed for
\* accept or for contentType keeps the existing value of that header: the
\* Service returned sends the Accept and Content-Type of the receiver.
C24_EmptyKeepsExisting ==
    built.builder = "WithAcceptContentType" =>
        /\ built.text[1] = "" => acceptHeader(derived) = acceptHeader(sv)
        /\ built.text[2] = "" => contentTypeHeader(derived) = contentTypeHeader(sv)

(* ======================== properties of Errors ========================= *)
\* positions (from 0) of the failed outcomes of the receiver, ascending
FailedPositions == SelectSeq([j \in 1..Len(oprs0) |-> j - 1], LAMBDA q : ~oprs0[q + 1].Success)

\* C15: Errors returns, in the original order, one entry per outcome whose
\* Success is false and none for the others; the entry of position idx
\* carries RecordIndex = idx + startIndex, and SObject = sobjects[idx]
\* whenever idx < len(sobjects).
C15_ErrorsIndexed ==
    epc = "called" =>
        /\ Len(errReponses) = Len(FailedPositions)
        /\ \A n \in 1..Len(errReponses) :
              LET idx == FailedPositions[n]
              IN  /\ errReponses[n].ID = idx
                  /\ ~errReponses[n].Success
                  /\ errReponses[n].RecordIndex = idx + startIndex
                  /\ idx < Len(sobjects) => errReponses[n].SObject = sobjects[idx + 1]

\* the outcomes of a response as values of type OpResponse
AsOutcomes(decoded) ==
    [j \in 1..Len(decoded) |->
        [ID |-> decoded[j].ID, Success |-> decoded[j].Success, RecordIndex |-> 0,
         SObject |-> NoSObject]]

\* the <<RecordIndex, key of the entity>> pairs of a list Errors returned
IndexedPairs(errs) == { <<errs[n].RecordIndex, errs[n].SObject.key>> : n \in 1..Len(errs) }

\* the failures of the call extracted in the logger, batch by batch, as
\* OpResponses(responses).Errors(offset, sobjects)
BatchwisePairs ==
    UNION { IndexedPairs(ErrorsResult(AsOutcomes(logs[k].responses), logs[k].offset,
                                      logs[k].sobjects)) : k \in 1..Len(logs) }

\* the failures extracted from what the call returned, as
\* OpResponses(results).Errors(0, entities) with the caller's list
AggregatePairs ==
    IndexedPairs(ErrorsResult(AsOutcomes(ret.results), 0,
                              IF op = "DeleteRecords"
                              THEN [j \in 1..Len(ids) |-> DeleteID(ids[j])]
                              ELSE recs))

\* C27: for a call that completes with one outcome per item, the failures
\* extracted batch by batch in the logger with Errors(offset, batch entities)
\* are the same (RecordIndex, entity) pairs as Errors(0, all entities) gives
\* on the returned aggregate, and every RecordIndex is the index of the
\* failed item in the caller's list.
C27_BatchwiseErrorsAgree ==
    (pc = "done" /\ ret.err = NoErr /\ sv.logger) =>
        /\ BatchwisePairs = AggregatePairs
        /\ Cardinality(AggregatePairs) =
              Cardinality({idx \in 1..Len(ret.results) : ~ret.results[idx].Success})
        /\ \A pr \in AggregatePairs :
              /\ pr[1] \in 0..(InputLen - 1)
              /\ ~ret.results[pr[1] + 1].Success
              /\ pr[2] = InputKeys[pr[1] + 1]

C27_Witness ==
    /\ pc = "done"
    /\ ret.err = NoErr
    /\ sv.logger
    /\ InputLen = 3
    /\ Len(logs) = 2
    /\ logs[2].offset = 2
    /\ ~ret.results[3].Success
    /\ ~ret.results[1].Success
    /\ ret.results[2].Success

(* ====================== properties of the query reader ================= *)
\* the rows of the pages served so far, in arrival order
RECURSIVE ArrivedUpTo(_)
ArrivedUpTo(n) == IF n = 0 THEN <<>> ELSE ArrivedUpTo(n - 1) \o pages[n].rows

Arrived == ArrivedUpTo(Len(pages))

\* the service answered every request and never reported done
NeverDone == Len(pages) > 0 /\ \A k \in 1..Len(pages) : ~pages[k].done

CappedQueryReturned ==
    /\ qpc = "done"
    /\ results = "ptrslice"
    /\ qret # TransportErr
    /\ sv.maxrows > 0
    /\ NeverDone

\* C10 as stated: with a row cap C > 0 and a service that holds more than C
\* rows and never reports done, Query returns nil with exactly C rows in the
\* destination, and they are the first C rows in arrival order.
C10_FirstRowsOfArrival ==
    (CappedQueryReturned /\ Len(Arrived) > sv.maxrows) =>
        /\ qret = NoErr
        /\ Len(dest) = sv.maxrows
        /\ dest = SubSeq(Arrived, 1, sv.maxrows)

\* C10 amended: with a row cap C > 0 and a service that never reports done,
\* Query returns nil with exactly C rows in the destination: the first C of
\* the rows it held on entry followed by the arrived rows in page order (the
\* first C arrived rows when it was empty on entry).
C10_CapTruncatesAccumulator ==
    CappedQueryReturned =>
        /\ qret = NoErr
        /\ Len(dest) = sv.maxrows
        /\ Len(dest0 \o Arrived) >= sv.maxrows
        /\ dest = SubSeq(dest0 \o Arrived, 1, sv.maxrows)
        /\ dest0 = <<>> => dest = SubSeq(Arrived, 1, sv.maxrows)

C10_Witness ==
    /\ CappedQueryReturned
    /\ sv.maxrows = 3
    /\ dest0 = <<>>
    /\ Len(pages) = 2
    /\ Len(Arrived) = 4
    /\ dest = <<<<1, 1>>, <<1, 2>>, <<2, 1>>>>

\* the call ran without a row cap on a pointer to a slice and no Transport
\* call of it failed
UncappedQuery ==
    /\ results = "ptrslice"
    /\ sv.maxrows = 0
    /\ qret # TransportErr

\* the server reported done on the last page served, and only on it
DoneOnLastOnly ==
    /\ Len(pages) > 0
    /\ pages[Len(pages)].done
    /\ \A k \in 1..(Len(pages) - 1) : ~pages[k].done

\* C11 as stated: without a row cap, when the server serves pages p1..pn and
\* reports done only on pn, Query returns nil after exactly n Transport calls
\* and the destination holds p1 ++ ... ++ pn in page order.
C11_HoldsConcatenation ==
    (UncappedQuery /\ qpc = "done") =>
        /\ qret = NoErr
        /\ DoneOnLastOnly
        /\ Len(qcalls) = Len(pages)
        /\ dest = Arrived

\* C11 amended: without a row cap, when the server serves pages p1..pn and
\* reports done only on pn, Query returns nil after exactly n Transport
\* calls, no call follows the page that reported done, and the destination
\* holds the rows it held on entry followed by p1 ++ ... ++ pn in page order
\* (exactly the concatenation when it was empty on entry).
C11_AppendsConcatenation ==
    /\ (UncappedQuery /\ qpc = "done") =>
          /\ qret = NoErr
          /\ DoneOnLastOnly
          /\ Len(qcalls) = Len(pages)
          /\ dest = dest0 \o Arrived
          /\ dest0 = <<>> => dest = Arrived
    /\ (UncappedQuery /\ Len(pages) > 0 /\ pages[Len(pages)].done) =>
          /\ qpc \in {"q_loop", "done"}
          /\ Len(qcalls) = Len(pages)

C11_Witness ==
    /\ UncappedQuery
    /\ qpc = "done"
    /\ qret = NoErr
    /\ dest0 = <<>>
    /\ Len(qcalls) = 3
    /\ Len(pages[1].rows) = 2
    /\ Len(pages[2].rows) = 2
    /\ Len(pages[3].rows) = 1
    /\ Len(dest) = 5

\* C12: when a Transport call of Query fails, Query returns that error at
\* once without a further Transport call, and the destination holds only the
\* rows of the pages decoded before the failure, none of the failed page.
C12_FailureKeepsDecodedPages ==
    (qpc = "done" /\ qret = TransportErr) =>
        /\ Len(qcalls) = Len(pages) + 1
        /\ dest = dest0 \o Arrived

\* a is an initial part of b
IsPrefix(a, b) == Len(a) <= Len(b) /\ SubSeq(b, 1, Len(a)) = a

\* C13: in one Query the destination only grows by appending: a step that
\* decodes a page keeps the previous contents, rows held on entry included,
\* as an unchanged prefix, no other step touches it, and rows are only ever
\* dropped from its end by the truncation to the row cap that ends the call.
C13_AppendOnly ==
    [][ /\ qpc \in {"q_loop", "done"} => dest' = dest
        /\ qpc = "q_call" =>
              \/ IsPrefix(dest, dest')
              \/ /\ qpc' = "done"
                 /\ qret' = NoErr
                 /\ sv.maxrows > 0
                 /\ Len(dest') = sv.maxrows
                 /\ IsPrefix(dest', dest) ]_vars

C13_Witness ==
    /\ qpc = "q_loop"
    /\ Len(pages) = 2
    /\ dest0 = PreRows(1)
    /\ dest = <<<<0, 1>>, <<1, 1>>, <<2, 1>>, <<2, 2>>>>

\* C19: Query called with the nil interface as results, or with a results
\* value that is not a pointer to a slice, returns the error of that check
\* ('results parameter may not be nil', 'expected *[]<struct>...') and no
\* Transport call is issued.
C19_BadResultsNoCall ==
    /\ results = "nil" => (qpc = "done" /\ qret = "results parameter may not be nil")
    /\ results = "value" => (qpc = "done" /\ qret = "expected *[]<struct>")
    /\ results \in {"nil", "value"} =>
          /\ qcalls = <<>>
          /\ pages = <<>>
          /\ dest = dest0

C19_Witness ==
    /\ results = "value"
    /\ qpc = "done"
    /\ qret = "expected *[]<struct>"
    /\ sv.maxrows > 0

\* C21: the first Transport call of a Query uses the path argument followed
\* by the URL-escaped query text, every later call uses exactly the next-page
\* URL of the response of the page before it, there is one call per page,
\* and no call follows a page that reported done or that reached the cap.
C21_PagePaths ==
    results = "ptrslice" =>
        /\ Len(qcalls) \in {Len(pages), Len(pages) + 1}
        /\ qpc = "q_call" <=> (qret = "pending" /\ Len(qcalls) = Len(pages) + 1)
        /\ Len(qcalls) >= 1 =>
              /\ qcalls[1].path.kind = qarg.path
              /\ qarg.path \in {"query/?q=", "queryAll/?q="}
              /\ Len(qcalls[1].path.text) = Len(qarg.qry)
              /\ \A j \in 1..Len(qarg.qry) :
                    qcalls[1].path.text[j] =
                        (CASE qarg.qry[j] = " " -> "+"
                           [] qarg.qry[j] = "=" -> "%3D"
                           [] OTHER -> qarg.qry[j])
        /\ \A k \in 2..Len(qcalls) :
              /\ pages[k - 1].next.kind = "next"
              /\ qcalls[k].path = pages[k - 1].next
        /\ \A k \in 1..Len(pages) : pages[k].done => Len(qcalls) = k
        /\ (sv.maxrows > 0 /\ Len(pages) > 0 /\ Len(dest0 \o Arrived) >= sv.maxrows) =>
              /\ qpc = "done"
              /\ Len(qcalls) = Len(pages)

C21_Witness ==
    /\ results = "ptrslice"
    /\ qarg.path = "queryAll/?q="
    /\ qarg.qry = <<"a", " ", "=">>
    /\ Len(qcalls) = 3
    /\ Len(pages) = 3
    /\ qcalls[1].path.text = <<"a", "+", "%3D">>
    /\ qcalls[3].path = pages[2].next
    /\ pages[3].done
    /\ qpc = "done"

\* C25: whenever Query returns nil on a Service with a row cap C > 0 the
\* destination holds at most C rows, also when the page that reached the cap
\* reported done and when the destination held rows on entry.
C25_CapBoundsRows ==
    (qpc = "done" /\ qret = NoErr /\ sv.maxrows > 0) => Len(dest) <= sv.maxrows

C25_Witness ==
    /\ qpc = "done"
    /\ qret = NoErr
    /\ sv.maxrows = 2
    /\ Len(dest0) = 1
    /\ Len(pages) = 1
    /\ pages[1].done
    /\ Len(pages[1].rows) = 2
    /\ Len(dest) = 2

\* every page served so far holds at least one row
PagesNonEmpty == \A k \in 1..Len(pages) : Len(pages[k].rows) >= 1

\* C26: Query terminates. When every Transport call returns and the server
\* reports done after finitely many pages, a running Query returns, without a
\* cap after exactly as many calls as pages up to the one that reported done;
\* with a cap C > 0 and at least one row in every page it issues at most C
\* calls, whether the server reports done or not.
C26_QueryTerminates ==
    /\ [](  (results = "ptrslice" /\ sv.maxrows > 0 /\ PagesNonEmpty)
            => Len(qcalls) <= sv.maxrows)
    /\ [](  (qpc = "done" /\ qret = NoErr /\ sv.maxrows = 0)
            => (DoneOnLastOnly /\ Len(qcalls) = Len(pages)))
    /\ (qpc \in {"q_loop", "q_call"}) ~> (qpc = "done")

C26_Witness ==
    /\ qpc = "done"
    /\ qret = NoErr
    /\ sv.maxrows = 2
    /\ dest0 = <<>>
    /\ NeverDone
    /\ PagesNonEmpty
    /\ Len(pages) = 2
    /\ Len(qcalls) = 2
    /\ Len(dest) = 2

(* ================= properties of ReadSObjectDescriptions ============== *)
\* C28: a started ReadSObjectDescriptions always returns, whatever the
\* number of objects and whichever Describe calls fail.
C28_AlwaysReturns == (ppc # "idle") ~> (ppc = "returned")

\* the number of times object o was received from sendChannel
TimesHanded(o) == Cardinality({k \in 1..Len(handed) : handed[k][1] = o})

\* the number of Structs of object o in job.StructMap
TimesAppended(o) == Cardinality({k \in 1..Len(StructMap) : StructMap[k] = o})

\* C29: when ReadSObjectDescriptions returns a job, every object of ObjMap
\* was received exactly once by a worker and every matched object has exactly
\* one Struct in job.StructMap; when it returns after an AssignSObjects call
\* failed, it returns nil and a non-empty ErrorList.
C29_ExactlyOnce ==
    (ppc = "returned" /\ pret # "createErr") =>
        /\ pret = "job" =>
              /\ \A o \in 1..nObjs : TimesHanded(o) = 1
              /\ \A o \in 1..nObjs : TimesAppended(o) = (IF o \in matchedObjs THEN 1 ELSE 0)
              /\ Len(StructMap) = Cardinality(matchedObjs)
              /\ failedObjs = {}
        /\ failedObjs # {} => (pret = "errors" /\ Len(el) > 0)
        /\ pret \in {"job", "errors"}

C29_Witness ==
    /\ ppc = "returned"
    /\ pret = "job"
    /\ nObjs = MaxObjs
    /\ Len(StructMap) >= 2
    /\ {handed[k][2] : k \in 1..Len(handed)} = Workers

(* ===================== properties of the type catalog ================= *)
\* C30: accesses to the catalog are mutually exclusive: while a goroutine
\* stores into sobjCatalog.sobjects it holds sobjCatalog.m and no other
\* goroutine is reading or storing.
C30_CatalogExclusive ==
    \A g \in Goroutines :
        kpc[g] = "store" =>
            /\ catM = g
            /\ \A h \in Goroutines \ {g} : kpc[h] \notin {"store", "read"}

====
